---- MODULE Spec2Model ----
(***************************************************************************)
(* Model of the token receiver (Web App B): the SecureCommunication        *)
(* manager of src/src/secure-comm.js and the in-memory TokenStorage of     *)
(* src/src/token-storage.js.                                               *)
(*                                                                         *)
(* Time is in milliseconds, as in the source.  Every operation records the *)
(* call it made in lastOp, its return value in ret, and the externally     *)
(* visible things it did, in order, in effects (status notifications, DOM  *)
(* updates, postMessage dispatches, token store calls, observer calls,     *)
(* timers armed).  config.debug only selects console output, which is not  *)
(* modelled.  A pending timer is a callback that may run at any later turn *)
(* of the event loop: the model keeps the order "armed, then fired" and    *)
(* not the length of the delay.                                            *)
(***************************************************************************)
EXTENDS Integers, Sequences, FiniteSets, Bags, TLC

(* ------------------------------------------------------------------ *)
(* Bounds of the model                                                 *)
(* ------------------------------------------------------------------ *)
MaxTimers == 2        \* timers pending at once
MaxTicks == 1         \* times the clock is seen to advance

(* ------------------------------------------------------------------ *)
(* Program constants                                                   *)
(* ------------------------------------------------------------------ *)
InitDelay == 1000
HandshakeTimeout == 30000
ClockSkew == 60000
MaxAge == 120000
DefaultIdLength == 32
AlphabetSize == 62

DefaultSenderOrigin == "http://localhost:3002"
OtherOrigin == "http://evil.example"
OwnOrigin == "http://localhost:3003"

NULL == "null"
WinA == "WinA"        \* the window that opened this one (Web App A)
WinX == "WinX"        \* some other window
Windows == {WinA, WinX}

(* ------------------------------------------------------------------ *)
(* Dates.  new Date(x) of a missing field is never computed (the code  *)
(* tests the field first); of an unparseable string it is an Invalid   *)
(* Date, whose time value is NaN; otherwise it is an instant.          *)
(* ------------------------------------------------------------------ *)
Absent == [k |-> "absent", t |-> 0]
Unparseable == [k |-> "nan", t |-> 0]
At(t) == [k |-> "time", t |-> t]

\* !field of a metadata field (an ISO string is truthy, a missing one is not)
Falsy(d) == d.k = "absent"
\* new Date(field).getTime()
ParseDate(d) == IF d.k = "time" THEN At(d.t) ELSE Unparseable
\* JavaScript a > b on time values: false as soon as one side is NaN
Gt(a, b) == a.k = "time" /\ b.k = "time" /\ a.t > b.t
\* JavaScript a - b on time values
Minus(a, b) == IF a.k = "time" /\ b.k = "time" THEN At(a.t - b.t) ELSE Unparseable
Plus(a, n) == IF a.k = "time" THEN At(a.t + n) ELSE Unparseable

(* ------------------------------------------------------------------ *)
(* Wire envelopes received from the platform                           *)
(* ------------------------------------------------------------------ *)
NoMetadata == [present |-> FALSE, timestamp |-> Absent, expiresAt |-> Absent]
Metadata(ts, ex) == [present |-> TRUE, timestamp |-> ts, expiresAt |-> ex]

NoData == [present |-> FALSE, hasTokens |-> FALSE, accessToken |-> "",
           refreshToken |-> "", userId |-> "", issuedAt |-> ""]
Data(has, a, r) == [present |-> TRUE, hasTokens |-> has, accessToken |-> a,
                    refreshToken |-> r, userId |-> "u1", issuedAt |-> "t0"]

NoMessage == [isNull |-> TRUE, type |-> "", requestId |-> <<>>, data |-> NoData,
              metadata |-> NoMetadata]
Message(type, rid, data, md) == [isNull |-> FALSE, type |-> type, requestId |-> rid,
                                 data |-> data, metadata |-> md]

Event(origin, source, message) == [origin |-> origin, source |-> source, data |-> message]
NoEvent == Event("", NULL, NoMessage)

(* ------------------------------------------------------------------ *)
(* State                                                               *)
(* ------------------------------------------------------------------ *)
VARIABLES
  config,                  \* this.config.senderOrigin
  sourceWindow,            \* this.sourceWindow
  handshakeComplete,       \* this.handshakeComplete
  connectionStatus,        \* this.connectionStatus
  tokenStorage,            \* this.tokenStorage: NULL or "store"
  tokensReceivedCallback,  \* this.tokensReceivedCallback: NULL, "fn" or "notfn"
  listening,               \* the 'message' listener is registered on window
  opener,                  \* window.opener: NULL or WinA
  store,                   \* the TokenStorage's closure variables
  timers,                  \* pending setTimeout callbacks, a bag
  now,                     \* wall clock, ms
  lastOp,                  \* the operation that ran last and its inputs
  effects,                 \* what that operation did, in order
  ret                      \* what it returned

vars == <<config, sourceWindow, handshakeComplete, connectionStatus, tokenStorage,
          tokensReceivedCallback, listening, opener, store, timers, now,
          lastOp, effects, ret>>

session == <<sourceWindow, handshakeComplete, connectionStatus>>

EmptyStore == [accessToken |-> "", refreshToken |-> "", hasMetadata |-> FALSE,
               userId |-> "", issuedAt |-> "", source |-> "", receivedAt |-> 0]

Op(name, event, bytes, throws) ==
  [op |-> name, event |-> event, bytes |-> bytes, throws |-> throws]


(* ------------------------------------------------------------------ *)
(* Effects                                                             *)
(* ------------------------------------------------------------------ *)
Status(message, type) == [kind |-> "status", message |-> message, type |-> type]
Post(target, message, targetOrigin) ==
  [kind |-> "post", target |-> target, message |-> message, targetOrigin |-> targetOrigin]
StoreCall(data, source, result) ==
  [kind |-> "store", accessToken |-> data.accessToken, refreshToken |-> data.refreshToken,
   userId |-> data.userId, issuedAt |-> data.issuedAt, source |-> source, result |-> result]
ObserverCall(data) ==
  [kind |-> "observer", accessToken |-> data.accessToken, refreshToken |-> data.refreshToken,
   userId |-> data.userId, issuedAt |-> data.issuedAt]
TokenInfo(hidden, userId, status, receivedAt) ==
  [kind |-> "tokenInfo", hidden |-> hidden, userId |-> userId, status |-> status,
   receivedAt |-> receivedAt]
SetTimeout(callback, delay) == [kind |-> "setTimeout", callback |-> callback, delay |-> delay]
AddListener == [kind |-> "addEventListener"]
RemoveListener == [kind |-> "removeEventListener"]


(* ------------------------------------------------------------------ *)
(* _generateId: one character of the 62-character alphabet per random  *)
(* byte, chosen by val % characters.length.  An id is the sequence of  *)
(* the chosen character positions.                                      *)
(* ------------------------------------------------------------------ *)
GenerateId(bytes) == [i \in 1..Len(bytes) |-> bytes[i] % AlphabetSize]
\* some of the arrays crypto.getRandomValues can fill: all zero, all 255, and
\* one running through the residues around the alphabet's size
RandomBytes(length) ==
  {[i \in 1..length |-> 0], [i \in 1..length |-> 255], [i \in 1..length |-> 60 + i]}

(* ------------------------------------------------------------------ *)
(* TokenStorage                                                        *)
(* ------------------------------------------------------------------ *)
\* storeTokens(tokens, metadata): the new closure variables and the return value
StoreTokens(st, data, source) ==
  IF ~data.hasTokens \/ data.accessToken = "" \/ data.refreshToken = ""
  THEN [store |-> st, ret |-> FALSE]
  ELSE [store |-> [accessToken |-> data.accessToken, refreshToken |-> data.refreshToken,
                   hasMetadata |-> TRUE, userId |-> data.userId,
                   issuedAt |-> data.issuedAt, source |-> source, receivedAt |-> now],
        ret |-> TRUE]

HasTokens(st) == st.accessToken # "" /\ st.refreshToken # ""

(* ------------------------------------------------------------------ *)
(* _isMessageValid                                                     *)
(* ------------------------------------------------------------------ *)
IsMessageValid(message) ==
  IF ~message.metadata.present \/ Falsy(message.metadata.timestamp)
     \/ Falsy(message.metadata.expiresAt)
  THEN FALSE
  ELSE LET nowD == At(now)
           expiresAt == ParseDate(message.metadata.expiresAt)
           timestamp == ParseDate(message.metadata.timestamp)
       IN  IF Gt(nowD, expiresAt) THEN FALSE
           ELSE IF Gt(timestamp, Plus(nowD, ClockSkew)) THEN FALSE
           ELSE IF Gt(Minus(nowD, timestamp), At(MaxAge)) THEN FALSE
           ELSE TRUE

\* a dispatch that names every origin as its target
TargetOrigin_Wildcard == "*"

\* the targetOrigin argument of every postMessage call
TargetOrigin == config.senderOrigin

(* ------------------------------------------------------------------ *)
(* _sendMessage: what it dispatches or reports, and what it returns.   *)
(* throws says whether the postMessage it reaches raises.              *)
(* ------------------------------------------------------------------ *)
SendMessage(message, throws) ==
  IF sourceWindow = NULL /\ opener = NULL
  THEN [effects |-> <<>>, ret |-> FALSE]
  ELSE LET secureMessage ==
             [message EXCEPT !.metadata =
                [present |-> TRUE, timestamp |-> now, sender |-> OwnOrigin]]
           target == IF message.type = "HANDSHAKE_REQUEST" /\ opener # NULL THEN opener
                     ELSE sourceWindow
       IN  IF target = NULL THEN [effects |-> <<>>, ret |-> FALSE]
           ELSE IF throws
           THEN [effects |-> <<Status("Error communicating with Web App A", "error")>>,
                 ret |-> FALSE]
           ELSE [effects |-> <<Post(target, secureMessage, TargetOrigin)>>,
                 ret |-> TRUE]

\* whether _sendMessage(message) reaches a postMessage call
SendReachesPost(message) ==
  IF message.type = "HANDSHAKE_REQUEST" /\ opener # NULL THEN TRUE ELSE sourceWindow # NULL


(* ------------------------------------------------------------------ *)
(* Inbound events the platform can deliver at the instant t            *)
(* ------------------------------------------------------------------ *)
Origins == {DefaultSenderOrigin, OtherOrigin}
Sources == {NULL} \cup Windows
Types == {"", "HANDSHAKE_RESPONSE", "TOKEN_TRANSFER", "TOKEN_RECEIVED"}
RequestIds == {<<0>>, <<7>>}

Timestamps(t) == {Absent, Unparseable, At(t - MaxAge - 1), At(t - MaxAge), At(t),
                  At(t + ClockSkew), At(t + ClockSkew + 1)}
Expiries(t) == {Absent, Unparseable, At(t - 1), At(t)}
Metadatas(t) == {NoMetadata} \cup {Metadata(ts, ex) : ts \in Timestamps(t), ex \in Expiries(t)}
Fresh(t) == Metadata(At(t), At(t))

FullData == Data(TRUE, "a", "b")
Datas == {NoData, Data(FALSE, "", ""), Data(TRUE, "", "b"), Data(TRUE, "a", ""), FullData}

TickStep == MaxAge + 1

SenderEvent(w, message) == Event(DefaultSenderOrigin, w, message)
Transfer(rid, data, md) == Message("TOKEN_TRANSFER", rid, data, md)

\* the events of the protocol runs: responses from every window, transfers with
\* every payload, other and missing types, stale and unstamped envelopes, and
\* the same from a foreign origin
Events(t) ==
       {SenderEvent(w, Message("HANDSHAKE_RESPONSE", <<0>>, NoData, NoMetadata)) :
          w \in Sources}
  \cup {SenderEvent(WinA, Transfer(<<0>>, d, Fresh(t))) : d \in Datas}
  \cup {SenderEvent(WinA, Transfer(<<7>>, FullData, md)) :
          md \in {Fresh(t), NoMetadata, Metadata(At(t), At(t - 1))}}
  \cup {SenderEvent(WinA, Message(ty, <<0>>, FullData, Fresh(t))) :
          ty \in {"", "TOKEN_RECEIVED"}}
  \cup {SenderEvent(WinA, NoMessage)}
  \cup {Event(OtherOrigin, WinX, Message(ty, <<0>>, FullData, Fresh(t))) :
          ty \in Types \ {""}}

\* the envelopes of the validator runs: every type with every shape of metadata
ValidatorEvents(t) ==
       {SenderEvent(WinA, Message(ty, <<0>>, FullData, md)) :
          ty \in Types \ {""}, md \in Metadatas(t)}
  \cup {SenderEvent(WinA, Message("", <<0>>, FullData, Fresh(t))), SenderEvent(WinA, NoMessage)}

(* ------------------------------------------------------------------ *)
(* constructor                                                         *)
(* ------------------------------------------------------------------ *)
Init ==
  /\ config = [senderOrigin |-> DefaultSenderOrigin]
  /\ sourceWindow = NULL
  /\ handshakeComplete = FALSE
  /\ connectionStatus = "disconnected"
  /\ tokenStorage \in {NULL, "store"}
  /\ tokensReceivedCallback = NULL
  /\ listening = FALSE
  /\ opener \in {NULL, WinA}
  /\ store = EmptyStore
  /\ timers = EmptyBag
  /\ now = 0
  /\ lastOp = Op("constructor", NoEvent, <<>>, FALSE)
  /\ effects = <<>>
  /\ ret = "this"

(* ------------------------------------------------------------------ *)
(* init, onTokensReceived, setTokenStorage, disconnect                 *)
(* ------------------------------------------------------------------ *)
InitManager ==
  /\ BagCardinality(timers) < MaxTimers
  /\ listening' = TRUE
  /\ timers' = timers (+) SetToBag({"initiateHandshake"})
  /\ lastOp' = Op("init", NoEvent, <<>>, FALSE)
  /\ effects' = <<AddListener, SetTimeout("initiateHandshake", InitDelay)>>
  /\ ret' = "this"
  /\ UNCHANGED <<config, session, tokenStorage, tokensReceivedCallback, opener, store, now>>

OnTokensReceived(callback) ==
  /\ tokensReceivedCallback' = callback
  /\ lastOp' = Op("onTokensReceived", NoEvent, <<>>, FALSE)
  /\ effects' = <<>>
  /\ ret' = "this"
  /\ UNCHANGED <<config, session, tokenStorage, listening, opener, store, timers, now>>

SetTokenStorage(ts) ==
  /\ tokenStorage' = ts
  /\ lastOp' = Op("setTokenStorage", NoEvent, <<>>, FALSE)
  /\ effects' = <<>>
  /\ ret' = "this"
  /\ UNCHANGED <<config, session, tokensReceivedCallback, listening, opener, store, timers, now>>

\* disconnect without its removeEventListener call
Disconnect_KeepsListener ==
  /\ listening' = listening
  /\ sourceWindow' = NULL
  /\ handshakeComplete' = FALSE
  /\ connectionStatus' = "disconnected"
  /\ lastOp' = Op("disconnect", NoEvent, <<>>, FALSE)
  /\ effects' = <<>>
  /\ ret' = "this"
  /\ UNCHANGED <<config, tokenStorage, tokensReceivedCallback, opener, store, timers, now>>

Disconnect ==
  /\ listening' = FALSE
  /\ sourceWindow' = NULL
  /\ handshakeComplete' = FALSE
  /\ connectionStatus' = "disconnected"
  /\ lastOp' = Op("disconnect", NoEvent, <<>>, FALSE)
  /\ effects' = <<RemoveListener>>
  /\ ret' = "this"
  /\ UNCHANGED <<config, tokenStorage, tokensReceivedCallback, opener, store, timers, now>>

(* ------------------------------------------------------------------ *)
(* initiateHandshake: its effects, the timers it leaves and its return *)
(* value, given the timers pending when it starts.                     *)
(* ------------------------------------------------------------------ *)
HandshakeRequest(requestId) ==
  [type |-> "HANDSHAKE_REQUEST", requestId |-> requestId,
   data |-> [timestamp |-> now, receiver |-> OwnOrigin],
   metadata |-> [present |-> FALSE, timestamp |-> 0, sender |-> ""]]

\* lines 68-98: the request is built and posted to the opener, the timeout armed
SendHandshakeRequest(pending, bytes, throws) ==
  IF throws
  THEN [effects |-> <<Status("Error establishing connection to Web App A", "error")>>,
        timers |-> pending, ret |-> "false"]
  ELSE [effects |-> <<Post(opener, HandshakeRequest(GenerateId(bytes)), TargetOrigin),
                      Status("Handshake initiated with Web App A", "pending"),
                      SetTimeout("handshakeTimeout", HandshakeTimeout)>>,
        timers |-> pending (+) SetToBag({"handshakeTimeout"}),
        ret |-> "true"]

\* initiateHandshake without its test of window.opener
InitiateHandshakeBody_NoOpenerCheck(pending, bytes, throws) ==
  SendHandshakeRequest(pending, bytes, throws)

InitiateHandshakeBody(pending, bytes, throws) ==
  IF opener = NULL
  THEN [effects |-> <<Status("Error: Cannot establish connection to parent window", "error")>>,
        timers |-> pending, ret |-> "false"]
  ELSE SendHandshakeRequest(pending, bytes, throws)

InitiateHandshake(bytes, throws) ==
  /\ throws => opener # NULL
  /\ LET r == InitiateHandshakeBody(timers, bytes, throws)
     IN  /\ BagCardinality(r.timers) <= MaxTimers
         /\ timers' = r.timers
         /\ effects' = r.effects
         /\ ret' = r.ret
  /\ lastOp' = Op("initiateHandshake", NoEvent, bytes, throws)
  /\ UNCHANGED <<config, session, tokenStorage, tokensReceivedCallback, listening, opener,
                 store, now>>


(* ------------------------------------------------------------------ *)
(* Timers                                                              *)
(* ------------------------------------------------------------------ *)
\* the callback init() schedules: the bound initiateHandshake
FireInitiateHandshake(bytes, throws) ==
  /\ BagIn("initiateHandshake", timers)
  /\ throws => opener # NULL
  /\ LET r == InitiateHandshakeBody(timers (-) SetToBag({"initiateHandshake"}), bytes, throws)
     IN  /\ timers' = r.timers
         /\ effects' = r.effects
  /\ ret' = "undefined"
  /\ lastOp' = Op("timer:initiateHandshake", NoEvent, bytes, throws)
  /\ UNCHANGED <<config, session, tokenStorage, tokensReceivedCallback, listening, opener,
                 store, now>>

\* the callback initiateHandshake schedules
HandshakeTimeoutEffects ==
  IF ~handshakeComplete
  THEN <<Status("Handshake timed out. Please try again.", "error")>>
  ELSE <<>>

FireHandshakeTimeout ==
  /\ BagIn("handshakeTimeout", timers)
  /\ timers' = timers (-) SetToBag({"handshakeTimeout"})
  /\ effects' = HandshakeTimeoutEffects
  /\ ret' = "undefined"
  /\ lastOp' = Op("timer:handshakeTimeout", NoEvent, <<>>, FALSE)
  /\ UNCHANGED <<config, session, tokenStorage, tokensReceivedCallback, listening, opener,
                 store, now>>

\* the wall clock advances
Tick ==
  /\ now + TickStep <= MaxTicks * TickStep
  /\ now' = now + TickStep
  /\ lastOp' = Op("tick", NoEvent, <<>>, FALSE)
  /\ effects' = <<>>
  /\ ret' = "undefined"
  /\ UNCHANGED <<config, session, tokenStorage, tokensReceivedCallback, listening, opener,
                 store, timers>>

(* ------------------------------------------------------------------ *)
(* handleMessage                                                       *)
(* ------------------------------------------------------------------ *)
Unchanged(effs) ==
  [sourceWindow |-> sourceWindow, handshakeComplete |-> handshakeComplete,
   connectionStatus |-> connectionStatus, store |-> store, effects |-> effs]

Acknowledgment(message) ==
  [type |-> "TOKEN_RECEIVED", requestId |-> message.requestId,
   data |-> [success |-> TRUE, timestamp |-> now],
   metadata |-> [present |-> FALSE, timestamp |-> 0, sender |-> ""]]

\* _updateTokenInfo, on a page that has the token info elements
UpdateTokenInfo(st) ==
  IF tokenStorage = NULL THEN <<>>
  ELSE IF HasTokens(st)
  THEN <<TokenInfo(FALSE, IF st.userId # "" THEN st.userId ELSE "Unknown", "Valid",
                   st.receivedAt)>>
  ELSE <<TokenInfo(TRUE, "", "", 0)>>

HandshakeResponse(event) ==
  [sourceWindow |-> event.source, handshakeComplete |-> TRUE,
   connectionStatus |-> "connected", store |-> store,
   effects |-> <<Status("Connected to Web App A and waiting for tokens...", "pending")>>]

\* lines 193-196 invoking the callback whether or not a function is registered
ObserverStep_Unchecked(message) == <<ObserverCall(message.data)>>

\* lines 193-196: the registered callback, if it is a function
ObserverStep(message) ==
  IF tokensReceivedCallback # NULL /\ tokensReceivedCallback = "fn"
  THEN <<ObserverCall(message.data)>>
  ELSE <<>>

\* lines 183-191 acknowledging with a correlation id of its own
AcknowledgeStep_OwnId(message, throws) ==
  SendMessage(Acknowledgment([message EXCEPT !.requestId = <<0>>]), throws)

\* lines 183-191: the acknowledgment of the transfer, through _sendMessage
AcknowledgeStep(message, throws) == SendMessage(Acknowledgment(message), throws)

\* lines 163-197: a transfer received after the handshake
\* the payload test looking at the access token only
TokensMissing_AccessOnly(data) == ~data.hasTokens \/ data.accessToken = ""

\* line 165: !tokenData || !tokenData.accessToken || !tokenData.refreshToken
TokensMissing(data) == ~data.hasTokens \/ data.accessToken = "" \/ data.refreshToken = ""

ProcessTokens(message, throws) ==
  LET data == IF message.data.present THEN message.data ELSE NoData
  IN  IF TokensMissing(data)
      THEN Unchanged(<<Status("Error: Received invalid token data", "error")>>)
      ELSE LET stored == StoreTokens(store, data, config.senderOrigin)
               st == IF tokenStorage # NULL THEN stored.store ELSE store
           IN  [Unchanged(<<>>) EXCEPT
                  !.store = st,
                  !.effects =
                       (IF tokenStorage # NULL
                        THEN <<StoreCall(data, config.senderOrigin, stored.ret)>>
                        ELSE <<>>)
                    \o <<Status("Tokens received successfully!", "success")>>
                    \o UpdateTokenInfo(st)
                    \o AcknowledgeStep(message, throws).effects
                    \o ObserverStep(message)]

\* the TOKEN_TRANSFER case without its test of handshakeComplete
TokenTransfer_NoHandshakeCheck(message, throws) == ProcessTokens(message, throws)

TokenTransfer(message, throws) ==
  IF ~handshakeComplete
  THEN Unchanged(<<Status("Security error: Received tokens before handshake completion",
                          "error")>>)
  ELSE ProcessTokens(message, throws)

\* a handler that validates no envelope
NeedsValidation_Never(message) == FALSE

\* a handler that validates every envelope, the handshake response included
NeedsValidation_Always(message) == TRUE

\* line 138: only the handshake response is exempt from _isMessageValid
NeedsValidation(message) == message.type # "HANDSHAKE_RESPONSE"

\* lines 130-198: what handleMessage does with an event of the configured origin
Dispatch(event, throws) ==
  LET message == event.data
  IN  IF message.isNull \/ message.type = "" THEN Unchanged(<<>>)
      ELSE IF NeedsValidation(message) /\ ~IsMessageValid(message)
      THEN Unchanged(<<>>)
      ELSE IF message.type = "HANDSHAKE_RESPONSE" THEN HandshakeResponse(event)
      ELSE IF message.type = "TOKEN_TRANSFER" THEN TokenTransfer(message, throws)
      ELSE Unchanged(<<>>)

\* handleMessage without its test of event.origin
HandleMessageBody_NoOriginCheck(event, throws) == Dispatch(event, throws)

HandleMessageBody(event, throws) ==
  IF event.origin # config.senderOrigin THEN Unchanged(<<>>)
  ELSE Dispatch(event, throws)

\* whether handling the event reaches the postMessage of the acknowledgment
ReachesPost(event) ==
  LET message == event.data
  IN  /\ event.origin = config.senderOrigin
      /\ ~message.isNull
      /\ message.type = "TOKEN_TRANSFER"
      /\ IsMessageValid(message)
      /\ handshakeComplete
      /\ message.data.hasTokens /\ message.data.accessToken # ""
      /\ message.data.refreshToken # ""
      /\ SendReachesPost(Acknowledgment(message))

HandleMessage(event, throws) ==
  /\ listening
  /\ throws => ReachesPost(event)
  /\ LET r == HandleMessageBody(event, throws)
     IN  /\ sourceWindow' = r.sourceWindow
         /\ handshakeComplete' = r.handshakeComplete
         /\ connectionStatus' = r.connectionStatus
         /\ store' = r.store
         /\ effects' = r.effects
  /\ ret' = "undefined"
  /\ lastOp' = Op("handleMessage", event, <<>>, throws)
  /\ UNCHANGED <<config, tokenStorage, tokensReceivedCallback, listening, opener, timers, now>>

(* ------------------------------------------------------------------ *)
(* Specification                                                       *)
(* ------------------------------------------------------------------ *)
IdBytes == IF opener = NULL THEN {<<>>} ELSE RandomBytes(DefaultIdLength)

Next ==
  \/ InitManager
  \/ \E callback \in {NULL, "fn", "notfn"} : OnTokensReceived(callback)
  \/ \E ts \in {NULL, "store"} : SetTokenStorage(ts)
  \/ \E bytes \in IdBytes, throws \in BOOLEAN : InitiateHandshake(bytes, throws)
  \/ Disconnect
  \/ \E bytes \in IdBytes, throws \in BOOLEAN : FireInitiateHandshake(bytes, throws)
  \/ FireHandshakeTimeout
  \/ Tick
  \/ \E event \in Events(now), throws \in BOOLEAN : HandleMessage(event, throws)

Spec == Init /\ [][Next]_vars


(* ------------------------------------------------------------------ *)
(* The application: initializeApp builds the store and the manager,    *)
(* calls init() and registers its observer; beforeunload disconnects.  *)
(* The envelopes it is given sweep every shape of metadata.            *)
(* ------------------------------------------------------------------ *)
InitApp ==
  /\ config = [senderOrigin |-> DefaultSenderOrigin]
  /\ sourceWindow = NULL
  /\ handshakeComplete = FALSE
  /\ connectionStatus = "disconnected"
  /\ tokenStorage = "store"
  /\ tokensReceivedCallback = "fn"
  /\ listening = TRUE
  /\ opener \in {NULL, WinA}
  /\ store = EmptyStore
  /\ timers = SetToBag({"initiateHandshake"})
  /\ now = 0
  /\ lastOp = Op("onTokensReceived", NoEvent, <<>>, FALSE)
  /\ effects = <<>>
  /\ ret = "this"

NextApp ==
  \/ \E bytes \in IdBytes, throws \in BOOLEAN : FireInitiateHandshake(bytes, throws)
  \/ FireHandshakeTimeout
  \/ Tick
  \/ \E event \in ValidatorEvents(now), throws \in BOOLEAN : HandleMessage(event, throws)
  \/ Disconnect

SpecApp == InitApp /\ [][NextApp]_vars


(* ------------------------------------------------------------------ *)
(* The messenger on its own: _sendMessage is a method of the object    *)
(* and can be handed any envelope; the manager itself only hands it    *)
(* the acknowledgment.                                                 *)
(* ------------------------------------------------------------------ *)
Envelope(type) ==
  [type |-> type, requestId |-> <<0>>, data |-> [success |-> TRUE, timestamp |-> now],
   metadata |-> [present |-> FALSE, timestamp |-> 0, sender |-> ""]]

SendMessageCall(type, throws) ==
  /\ throws => SendReachesPost(Envelope(type))
  /\ LET r == SendMessage(Envelope(type), throws)
     IN  /\ effects' = r.effects
         /\ ret' = IF r.ret THEN "true" ELSE "false"
  /\ lastOp' = Op("_sendMessage", Event(OwnOrigin, NULL, Message(type, <<0>>, NoData, NoMetadata)),
                  <<>>, throws)
  /\ UNCHANGED <<config, session, tokenStorage, tokensReceivedCallback, listening, opener,
                 store, timers, now>>

NextMessenger ==
  \/ Next
  \/ \E type \in {"HANDSHAKE_REQUEST", "TOKEN_RECEIVED"}, throws \in BOOLEAN :
        SendMessageCall(type, throws)

SpecMessenger == Init /\ [][NextMessenger]_vars

(* ================================================================== *)
(* Properties                                                          *)
(* ================================================================== *)
Kinds(effs) == {effs[i].kind : i \in 1..Len(effs)}
OfKind(effs, kinds) == SelectSeq(effs, LAMBDA e : e.kind \in kinds)
Reported(effs, message, type) ==
  \E i \in 1..Len(effs) :
     effs[i].kind = "status" /\ effs[i].message = message /\ effs[i].type = type

\* op is the handling of an envelope of the given type
Handles(op, type) ==
  op.op = "handleMessage" /\ ~op.event.data.isNull /\ op.event.data.type = type
FromSender(op) == op.event.origin = config.senderOrigin
HasBothTokens(op) ==
  /\ op.event.data.data.present /\ op.event.data.data.hasTokens
  /\ op.event.data.data.accessToken # "" /\ op.event.data.data.refreshToken # ""
\* op is the handling of a transfer that passes every test of handleMessage
\* in the state it is handled in
Processed(op) ==
  /\ Handles(op, "TOKEN_TRANSFER") /\ FromSender(op)
  /\ IsMessageValid(op.event.data) /\ handshakeComplete /\ HasBothTokens(op)

(* C1: an inbound event whose origin differs from the configured sender
   origin, whatever its type, payload and the session state, changes no
   session field, leaves the token store alone, and causes no store call,
   no observer call and no dispatch to any window. *)
C1_ForeignOriginChangesNothing ==
  [][(lastOp'.op = "handleMessage" /\ lastOp'.event.origin # config.senderOrigin)
       => /\ session' = session
          /\ store' = store
          /\ Kinds(effects') \cap {"store", "observer", "post"} = {}]_vars

C1_Witness ==
  /\ Handles(lastOp, "TOKEN_TRANSFER") /\ ~FromSender(lastOp)
  /\ HasBothTokens(lastOp) /\ IsMessageValid(lastOp.event.data)
  /\ handshakeComplete /\ sourceWindow # NULL /\ tokenStorage # NULL
  /\ tokensReceivedCallback = "fn"

(* C2: a HANDSHAKE_RESPONSE of the configured origin received before the
   handshake completed connects the session and records the event's source
   window; one received when the handshake is already complete changes no
   session field (the recorded window is kept) and emits no status
   notification. *)
C2_DuplicateResponseIgnored ==
  [][(Handles(lastOp', "HANDSHAKE_RESPONSE") /\ lastOp'.event.origin = config.senderOrigin)
       => IF handshakeComplete
          THEN session' = session /\ "status" \notin Kinds(effects')
          ELSE /\ handshakeComplete' /\ connectionStatus' = "connected"
               /\ sourceWindow' = lastOp'.event.source]_vars

(* C3: a TOKEN_TRANSFER handled while the handshake is not complete is
   rejected: no store call, no acknowledgment, no observer call, and the
   session fields and the token store are unchanged. *)
C3_TransferBeforeHandshakeRejected ==
  [][(Handles(lastOp', "TOKEN_TRANSFER") /\ ~handshakeComplete)
       => /\ session' = session
          /\ store' = store
          /\ Kinds(effects') \cap {"store", "observer", "post"} = {}]_vars

C3_Witness ==
  /\ Handles(lastOp, "TOKEN_TRANSFER") /\ FromSender(lastOp)
  /\ HasBothTokens(lastOp) /\ IsMessageValid(lastOp.event.data)
  /\ ~handshakeComplete /\ tokenStorage # NULL /\ tokensReceivedCallback = "fn"
  /\ Reported(effects, "Security error: Received tokens before handshake completion",
              "error")

(* C4: in a connected session with a token store installed, an observer
   registered and a peer window recorded, a fresh TOKEN_TRANSFER of the
   configured origin carrying both tokens, whose acknowledgment the platform
   dispatches, causes exactly, in this order: storeTokens with the received
   tokens and {userId, issuedAt, source = configured origin}; a
   TOKEN_RECEIVED with the transfer's requestId and success = true posted to
   the recorded peer window; the observer with the same tokens and
   {userId, issuedAt}. *)
C4_EndToEndTransfer ==
  [][(/\ Processed(lastOp') /\ connectionStatus = "connected"
      /\ tokenStorage # NULL /\ tokensReceivedCallback = "fn"
      /\ sourceWindow # NULL /\ ~lastOp'.throws)
       => LET d == lastOp'.event.data.data
              e == OfKind(effects', {"store", "post", "observer"})
          IN  /\ Len(e) = 3
              /\ e[1].kind = "store"
              /\ e[1].accessToken = d.accessToken /\ e[1].refreshToken = d.refreshToken
              /\ e[1].userId = d.userId /\ e[1].issuedAt = d.issuedAt
              /\ e[1].source = config.senderOrigin
              /\ e[2].kind = "post"
              /\ e[2].target = sourceWindow
              /\ e[2].message.type = "TOKEN_RECEIVED"
              /\ e[2].message.requestId = lastOp'.event.data.requestId
              /\ e[2].message.data.success
              /\ e[3].kind = "observer"
              /\ e[3].accessToken = d.accessToken /\ e[3].refreshToken = d.refreshToken
              /\ e[3].userId = d.userId /\ e[3].issuedAt = d.issuedAt]_vars

C4_Witness ==
  /\ Processed(lastOp) /\ lastOp.event.data.requestId = <<7>>
  /\ Len(OfKind(effects, {"store", "post", "observer"})) = 3
  /\ HasTokens(store) /\ store.userId = "u1"
  /\ BagIn("handshakeTimeout", timers)

(* C5: once a transfer has been processed, a further TOKEN_TRANSFER is not
   processed: it causes no store call, no acknowledgment and no observer
   call, and leaves the token store as it was. *)
C5_NoSecondTransfer ==
  [][(/\ lastOp.op = "handleMessage"
      /\ Kinds(effects) \cap {"store", "observer", "post"} # {}
      /\ Handles(lastOp', "TOKEN_TRANSFER"))
       => /\ Kinds(effects') \cap {"store", "observer", "post"} = {}
          /\ store' = store]_vars

(* C6: a processed transfer invokes the observer exactly once, with the
   tokens and {userId, issuedAt}, when a function is registered; with none
   registered it invokes nothing and still stores, reports success and
   acknowledges; no other step invokes the observer. *)
C6_ObserverExactlyOnce ==
  [][LET calls == OfKind(effects', {"observer"})
         d == lastOp'.event.data.data
     IN  IF Processed(lastOp')
         THEN IF tokensReceivedCallback = "fn"
              THEN /\ Len(calls) = 1
                   /\ calls[1].accessToken = d.accessToken
                   /\ calls[1].refreshToken = d.refreshToken
                   /\ calls[1].userId = d.userId /\ calls[1].issuedAt = d.issuedAt
              ELSE /\ Len(calls) = 0
                   /\ Reported(effects', "Tokens received successfully!", "success")
                   /\ tokenStorage # NULL => "store" \in Kinds(effects')
                   /\ (sourceWindow # NULL /\ ~lastOp'.throws) => "post" \in Kinds(effects')
         ELSE Len(calls) = 0]_vars

C6_Witness ==
  /\ Processed(lastOp) /\ tokensReceivedCallback = NULL
  /\ Kinds(effects) = {"store", "status", "tokenInfo", "post"}

(* C7: in every reachable state the recorded peer window is non-null if and
   only if the handshake is complete. *)
C7_PeerIffHandshakeComplete == (sourceWindow # NULL) <=> handshakeComplete

(* C8: initiateHandshake with no opener returns false, posts nothing, arms
   no timeout and changes no session field, so a disconnected session with
   no peer window stays so. *)
C8_NoOpenerFails ==
  [][(lastOp'.op \in {"initiateHandshake", "timer:initiateHandshake"} /\ opener = NULL)
       => /\ lastOp'.op = "initiateHandshake" => ret' = "false"
          /\ Kinds(effects') \cap {"post", "setTimeout"} = {}
          /\ CopiesIn("handshakeTimeout", timers') = CopiesIn("handshakeTimeout", timers)
          /\ session' = session
          /\ (connectionStatus = "disconnected" /\ ~handshakeComplete)
               => (connectionStatus' = "disconnected" /\ ~handshakeComplete'
                   /\ sourceWindow' = sourceWindow)]_vars

C8_Witness ==
  /\ lastOp.op = "initiateHandshake" /\ opener = NULL /\ ret = "false"
  /\ connectionStatus = "disconnected" /\ sourceWindow = NULL /\ listening

(* C9: when the handshake timeout fires with the handshake not complete the
   connection status becomes "error" and the timeout is reported; when it
   fires with the handshake complete nothing changes and nothing is
   reported. *)
C9_TimeoutMovesToError ==
  [][lastOp'.op = "timer:handshakeTimeout"
       => IF ~handshakeComplete
          THEN /\ connectionStatus' = "error"
               /\ Reported(effects', "Handshake timed out. Please try again.", "error")
          ELSE session' = session /\ effects' = <<>>]_vars

(* C10: an envelope of a type other than HANDSHAKE_RESPONSE that carries
   metadata.timestamp and metadata.expiresAt passes _isMessageValid if and
   only if now <= expiresAt, timestamp <= now + 60000 and
   now - timestamp <= 120000. *)
C10_ValidIffWithinBounds ==
  LET m == lastOp.event.data
      ts == m.metadata.timestamp
      ex == m.metadata.expiresAt
  IN  (/\ lastOp.op = "handleMessage" /\ ~m.isNull
       /\ m.type \notin {"", "HANDSHAKE_RESPONSE"}
       /\ m.metadata.present /\ ts.k # "absent" /\ ex.k # "absent")
        => (IsMessageValid(m)
              <=> /\ ts.k = "time" /\ ex.k = "time"
                  /\ now <= ex.t
                  /\ ts.t <= now + 60000
                  /\ now - ts.t <= 120000)


(* C11: every postMessage the session makes, the handshake request of
   initiateHandshake and every message of the messenger, names the
   configured sender origin as its target origin, never "*", and no
   operation changes the configured sender origin. *)
C11_TargetOriginIsConfigured ==
  [][/\ config' = config
     /\ \A i \in 1..Len(effects') :
          effects'[i].kind = "post"
            => /\ effects'[i].targetOrigin = config.senderOrigin
               /\ effects'[i].targetOrigin # "*"]_vars

C11_Witness ==
  /\ lastOp.op = "handleMessage"
  /\ \E i \in 1..Len(effects) :
       /\ effects[i].kind = "post" /\ effects[i].target = WinX
       /\ effects[i].message.type = "TOKEN_RECEIVED"
       /\ effects[i].targetOrigin = DefaultSenderOrigin
  /\ BagIn("handshakeTimeout", timers)


(* C12: disconnect() from any state removes the message listener, clears
   the recorded source window and leaves the session disconnected and not
   complete; the values it assigns do not depend on the state it starts
   from, so a second call ends in the same state; it touches nothing else.
   From then on no message event is handled: every handleMessage step
   starts in a state whose listener is registered, so with the listener
   removed no inbound message changes the session or reaches the token
   store. *)
C12_DisconnectClearsAndSilences ==
  [][/\ lastOp'.op = "disconnect"
          => /\ ~listening'
             /\ "removeEventListener" \in Kinds(effects')
             /\ session' = <<NULL, FALSE, "disconnected">>
             /\ UNCHANGED <<config, tokenStorage, tokensReceivedCallback, store, timers, now>>
     /\ (lastOp.op = "disconnect" /\ lastOp'.op = "disconnect") => session' = session
     /\ lastOp'.op = "handleMessage" => listening
     /\ (~listening /\ ~listening')
          => sourceWindow' = NULL /\ ~handshakeComplete' /\ store' = store]_vars

C12_Witness ==
  /\ lastOp.op = "disconnect"
  /\ ~listening
  /\ HasTokens(store)
  /\ BagIn("handshakeTimeout", timers)
  /\ session = <<NULL, FALSE, "disconnected">>


(* C13: a TOKEN_TRANSFER of the configured origin that passes validation
   and arrives after the handshake completed, but lacks the tokens object,
   the access token or the refresh token, is reported as invalid token
   data and nothing else: storeTokens is not called, nothing is posted, the
   observer is not called, and the session with its source window stays as
   it was. *)
C13_InvalidPayloadReportedOnly ==
  [][(/\ Handles(lastOp', "TOKEN_TRANSFER")
      /\ FromSender(lastOp')
      /\ IsMessageValid(lastOp'.event.data)
      /\ handshakeComplete
      /\ ~HasBothTokens(lastOp'))
       => /\ effects' = <<Status("Error: Received invalid token data", "error")>>
          /\ Kinds(effects') \cap {"store", "post", "observer"} = {}
          /\ session' = session
          /\ store' = store]_vars

C13_Witness ==
  /\ Handles(lastOp, "TOKEN_TRANSFER")
  /\ FromSender(lastOp)
  /\ lastOp.event.data.data.hasTokens
  /\ lastOp.event.data.data.accessToken # ""
  /\ lastOp.event.data.data.refreshToken = ""
  /\ handshakeComplete
  /\ sourceWindow = WinA
  /\ tokenStorage # NULL
  /\ tokensReceivedCallback = "fn"
  /\ Reported(effects, "Error: Received invalid token data", "error")


\* the page of token-storage.js has sent its one handshake request and is
\* still waiting for the answer: the request's timeout timer is pending, the
\* handshake is not complete and the listener is registered
AwaitingResponse ==
  listening /\ ~handshakeComplete /\ BagIn("handshakeTimeout", timers)

(* C14: a HANDSHAKE_RESPONSE of the configured origin that arrives while
   no handshake request is outstanding is ignored: it records no source
   window, does not complete the handshake and reports nothing.  This
   covers the response that arrives in the delay between init() and the
   first request, and the one that arrives after initiateHandshake()
   failed. *)
C14_UnsolicitedResponseIgnored ==
  [][(/\ Handles(lastOp', "HANDSHAKE_RESPONSE")
      /\ FromSender(lastOp')
      /\ ~AwaitingResponse)
       => /\ session' = session
          /\ effects' = <<>>]_vars


(* C15: a timer that is pending when disconnect() returns was armed before
   the disconnect; when it fires next it does nothing: it posts no
   HANDSHAKE_REQUEST, arms no timer, reports no timeout and changes
   neither the session nor the store. *)
C15_StaleTimersAreNoOps ==
  [][(/\ lastOp.op = "disconnect"
      /\ lastOp'.op \in {"timer:initiateHandshake", "timer:handshakeTimeout"})
       => /\ effects' = <<>>
          /\ session' = session
          /\ store' = store
          /\ \A callback \in {"initiateHandshake", "handshakeTimeout"} :
               CopiesIn(callback, timers') <= CopiesIn(callback, timers)]_vars


(* C16: a HANDSHAKE_RESPONSE completes the handshake only if its requestId
   is the one of the outstanding HANDSHAKE_REQUEST.  Stated on the step
   that follows the request: when the last operation posted a request and
   the response handled next carries another requestId, the handshake
   does not complete and no source window is recorded. *)
C16_ResponseMustMatchRequest ==
  [][(/\ ~handshakeComplete
      /\ Handles(lastOp', "HANDSHAKE_RESPONSE")
      /\ FromSender(lastOp')
      /\ \E i \in 1..Len(effects) :
           /\ effects[i].kind = "post"
           /\ effects[i].message.type = "HANDSHAKE_REQUEST"
           /\ effects[i].message.requestId # lastOp'.event.data.requestId)
       => /\ ~handshakeComplete'
          /\ sourceWindow' = sourceWindow]_vars


\* the rejection rules written out on an envelope: no envelope or no type;
\* a type other than HANDSHAKE_RESPONSE with no metadata, no timestamp or
\* no expiry; the same with an expiry in the past, a timestamp more than
\* ClockSkew ahead or more than MaxAge old
LacksEnvelope(message) == message.isNull \/ message.type = ""

LacksStamp(message) ==
  /\ ~LacksEnvelope(message)
  /\ message.type # "HANDSHAKE_RESPONSE"
  /\ \/ ~message.metadata.present
     \/ message.metadata.timestamp = Absent
     \/ message.metadata.expiresAt = Absent

OutOfBounds(message) ==
  /\ ~LacksEnvelope(message)
  /\ message.type # "HANDSHAKE_RESPONSE"
  /\ message.metadata.present
  /\ message.metadata.timestamp.k = "time"
  /\ message.metadata.expiresAt.k = "time"
  /\ \/ now > message.metadata.expiresAt.t
     \/ message.metadata.timestamp.t > now + ClockSkew
     \/ now - message.metadata.timestamp.t > MaxAge

(* C17: a message of the configured origin that has no envelope or no
   type, or that is not a HANDSHAKE_RESPONSE and lacks its metadata, its
   timestamp or its expiry, or is expired, stamped too far ahead or too
   old, is dropped without a trace: the handler returns normally, posts
   nothing, reports nothing, calls neither the store nor the observer and
   leaves the session, its source window and the store as they were. *)
C17_RejectedIsLocalNoOp ==
  [][(/\ lastOp'.op = "handleMessage"
      /\ FromSender(lastOp')
      /\ \/ LacksEnvelope(lastOp'.event.data)
         \/ LacksStamp(lastOp'.event.data)
         \/ OutOfBounds(lastOp'.event.data))
       => /\ effects' = <<>>
          /\ ret' = "undefined"
          /\ session' = session
          /\ store' = store]_vars

C17_Witness ==
  /\ Handles(lastOp, "TOKEN_TRANSFER")
  /\ FromSender(lastOp)
  /\ OutOfBounds(lastOp.event.data)
  /\ now - lastOp.event.data.metadata.timestamp.t > MaxAge
  /\ now <= lastOp.event.data.metadata.expiresAt.t
  /\ HasBothTokens(lastOp)
  /\ handshakeComplete
  /\ sourceWindow = WinA
  /\ tokenStorage # NULL
  /\ effects = <<>>


(* C18: the metadata rules bind every type but HANDSHAKE_RESPONSE.  A
   typed message of the configured origin that is not a handshake response
   and lacks its metadata, its timestamp or its expiry is always dropped
   without effect; a HANDSHAKE_RESPONSE of the configured origin is taken
   whatever its metadata (none, an expired expiry, a timestamp out of
   bounds, unparseable dates): it completes the handshake and records the
   event's source. *)
C18_OnlyResponseIsExempt ==
  [][/\ (/\ lastOp'.op = "handleMessage"
         /\ FromSender(lastOp')
         /\ LacksStamp(lastOp'.event.data))
          => effects' = <<>> /\ session' = session /\ store' = store
     /\ (Handles(lastOp', "HANDSHAKE_RESPONSE") /\ FromSender(lastOp'))
          => /\ handshakeComplete'
             /\ connectionStatus' = "connected"
             /\ sourceWindow' = lastOp'.event.source
             /\ Reported(effects', "Connected to Web App A and waiting for tokens...",
                         "pending")]_vars

C18_Witness ==
  /\ Handles(lastOp, "HANDSHAKE_RESPONSE")
  /\ FromSender(lastOp)
  /\ lastOp.event.data.metadata.present
  /\ lastOp.event.data.metadata.expiresAt.k = "time"
  /\ now > lastOp.event.data.metadata.expiresAt.t
  /\ lastOp.event.data.metadata.timestamp.k = "time"
  /\ lastOp.event.data.metadata.timestamp.t > now + ClockSkew
  /\ handshakeComplete
  /\ connectionStatus = "connected"
  /\ sourceWindow = WinA


\* the window the routing rule requires for an envelope of this type
RequiredTarget(type) == IF type = "HANDSHAKE_REQUEST" THEN opener ELSE sourceWindow

(* C19: routing of outbound messages.  Every HANDSHAKE_REQUEST that is
   posted goes to the opener, every message of another type goes to the
   recorded source window.  When _sendMessage lacks the window its
   envelope requires (no opener for a request, no source window for
   anything else), or postMessage throws, it returns false, posts nothing
   and leaves the session and its source window as they were. *)
C19_MessengerRouting ==
  [][/\ \A i \in 1..Len(effects') :
          effects'[i].kind = "post"
            => /\ effects'[i].target # NULL
               /\ effects'[i].target = RequiredTarget(effects'[i].message.type)
     /\ (/\ lastOp'.op = "_sendMessage"
         /\ \/ RequiredTarget(lastOp'.event.data.type) = NULL
            \/ lastOp'.throws)
          => /\ ret' = "false"
             /\ "post" \notin Kinds(effects')
             /\ session' = session]_vars


(* C20: every TOKEN_RECEIVED acknowledgment with success = true that a
   handler run posts comes after a storeTokens call of the same run that
   returned true for the tokens of the transfer being handled; this holds
   whether or not the session was given a token storage. *)
C20_AckOnlyAfterStore ==
  \A i \in 1..Len(effects) :
    (/\ effects[i].kind = "post"
     /\ effects[i].message.type = "TOKEN_RECEIVED"
     /\ effects[i].message.data.success)
      => \E j \in 1..(i - 1) :
           /\ effects[j].kind = "store"
           /\ effects[j].result
           /\ effects[j].accessToken = lastOp.event.data.data.accessToken
           /\ effects[j].refreshToken = lastOp.event.data.data.refreshToken

====
